---- MODULE Spec2Model ----
(***************************************************************************)
(* since_when: the aggregation engine of src/src/utils.rs                  *)
(* (get_days_since_now, get_elapsed_days, get_averages, sort_events,       *)
(* event_details) and the store of src/src/database.rs it reads from.      *)
(* The application state of src/src/app.rs, the calendar page of           *)
(* src/src/calendar.rs, the add-event page of src/src/add_event.rs and the *)
(* events page of src/src/events.rs.                                       *)
(*                                                                         *)
(* Specifications:                                                         *)
(*   Spec        the store commands and event_details over the store;      *)
(*   SpecEngine  the four engine functions run in pipeline order over an   *)
(*               arbitrary occurrence list;                                *)
(*   SpecFn      each of get_elapsed_days, get_averages and sort_events    *)
(*               called on its own with an arbitrary mapping;              *)
(*   SpecCal     the calendar page: Calendar::update and the grid;         *)
(*   SpecApp     SinceWhen::update under the messages its pages emit;      *)
(*   SpecView    EventsPage::view over an arbitrary occurrence list.       *)
(***************************************************************************)
EXTENDS Integers, Sequences, FiniteSets, Bags, TLC

VARIABLES
    foreign_keys,     \* does the SQLite build enforce FOREIGN KEY clauses
    events_tbl,       \* table events(id, name): a set of rows
    occurrences_tbl,  \* table occurrences(event_id, year, month, day): row -> copies
    now,              \* the reference date of one aggregation pass
    events,           \* Vec<EventOccurrence> handed to get_days_since_now
    days_since_now,   \* HashMap<String, Vec<i32>>
    elapsed,          \* HashMap<String, Vec<i32>>
    averages,         \* HashMap<String, i32>
    sorted_events,    \* Vec<(String, i32, i32)>
    store_fault,      \* the store failure the last event_details call met
    pc,               \* position in the pipeline / the handler that ran last
    day,              \* SinceWhen.day
    month,            \* SinceWhen.month
    year,             \* SinceWhen.year
    current_page,     \* SinceWhen.current_page
    calendar,         \* SinceWhen.calendar: Calendar { month, year }
    add_event_page,   \* SinceWhen.add_event: AddEvent { date, event }
    cells,            \* the days on the 42 buttons Calendar::calendar built last
    event_rows        \* the rows EventsPage::view built last

\* The application state of app.rs and what its pages put on display.
app_vars == <<day, month, year, current_page, calendar, add_event_page,
              cells, event_rows>>

vars == <<foreign_keys, events_tbl, occurrences_tbl, now, events,
          days_since_now, elapsed, averages, sorted_events, store_fault, pc,
          app_vars>>

(***************************************************************************)
(* Bounds of the model.                                                    *)
(***************************************************************************)
MaxOcc == 3     \* longest arbitrary occurrence list given to the engine
MaxLen == 3     \* longest arbitrary sequence in a mapping given to a function
MaxRows == 3    \* most rows in the occurrences table
MaxId == 2      \* largest rowid the events table hands out
MaxAppRows == 1 \* most rows in the occurrences table while the pages are used

Names == {"A", "B"}

\* Dates as the (year, month, day) fields of the "%Y-%m-%d" text.
\* <<2023, 2, 30>> is a text that does not parse.
EngineDates == {<<2022, 12, 31>>, <<2023, 3, 10>>, <<2023, 4, 11>>,
                <<2023, 4, 25>>, <<2023, 2, 30>>}
StoreDates == {<<2022, 12, 31>>, <<2023, 3, 10>>, <<2023, 4, 11>>, <<2023, 4, 25>>}
NowDates == {<<2023, 4, 22>>, <<2024, 3, 1>>}

\* The end-to-end scenario of the spec: A on 04-01, 04-11, 04-06, 04-12.
ScenarioEvents ==
    << [name |-> "A", date |-> <<2023, 4, 1>>],
       [name |-> "A", date |-> <<2023, 4, 11>>],
       [name |-> "A", date |-> <<2023, 4, 6>>],
       [name |-> "A", date |-> <<2023, 4, 12>>] >>

\* Values of the arbitrary mappings, and the sequences of the doc tests.
Vals == {-3, 0, 2}
AvgVals == {-1, 3}
DocSeqs == { <<1, 11, 22, 33, 44>>, <<1, 6, 8, 16, 20>>, <<10, 11, 11, 11>>,
             <<4, 11, 22, 33, 44>>, <<1, 6, 11, 16, 21>> }

\* The doc test of sort_events.
DocSortEvents ==
    [n \in {"foo", "bar"} |->
        IF n = "foo" THEN <<4, 11, 22, 33, 44>> ELSE <<1, 6, 11, 16, 21>>]
DocSortAverages == [n \in {"foo", "bar"} |-> IF n = "foo" THEN 22 ELSE 11]

BoundedSeq(S, n) == UNION { [1..k -> S] : k \in 0..n }

EmptyMap == [n \in {} |-> <<>>]

\* Every mapping from a subset of Names into the set R.
Maps(R) == UNION { [K -> R] : K \in SUBSET Names }

\* The orders in which a HashMap may iterate over the keys K.
IterOrders(K) ==
    { o \in [1..Cardinality(K) -> K] : \A i, j \in DOMAIN o : i # j => o[i] # o[j] }

(***************************************************************************)
(* chrono::NaiveDate: validity of a date and its day number.               *)
(***************************************************************************)
IsLeap(y) == (y % 4 = 0 /\ y % 100 # 0) \/ y % 400 = 0

DaysInMonth(y, m) ==
    IF m = 2 THEN (IF IsLeap(y) THEN 29 ELSE 28)
    ELSE IF m \in {4, 6, 9, 11} THEN 30 ELSE 31

\* NaiveDate::parse_from_str(date, "%Y-%m-%d") is Ok exactly for a real date.
parse_ok(date) ==
    /\ date[2] \in 1..12
    /\ date[3] \in 1..DaysInMonth(date[1], date[2])

RECURSIVE DaysBeforeMonth(_, _)
DaysBeforeMonth(y, m) ==
    IF m <= 1 THEN 0 ELSE DaysBeforeMonth(y, m - 1) + DaysInMonth(y, m - 1)

\* Days from 0001-01-01 (day 1), proleptic Gregorian calendar.
num_days_from_ce(date) ==
    LET y == date[1] - 1
    IN  365 * y + (y \div 4) - (y \div 100) + (y \div 400)
          + DaysBeforeMonth(date[1], date[2]) + date[3]

\* a.signed_duration_since(b).num_days()
signed_days_since(a, b) == num_days_from_ce(a) - num_days_from_ce(b)

\* chrono::Weekday::num_days_from_sunday: 0001-01-01 (day 1) is a Monday.
num_days_from_sunday(date) == num_days_from_ce(date) % 7

(***************************************************************************)
(* app.rs: the application state as SinceWhen::new builds it.              *)
(***************************************************************************)
\* Calendar::new: the month and year of the current date.
calendar_new(today) == [month |-> today[2], year |-> today[1]]

\* AddEvent::new: the date 0001-03-03 and no text.
add_event_new == [date |-> <<1, 3, 3>>, event |-> ""]

SinceWhenNew(today) ==
    /\ day = 0
    /\ month = 0
    /\ year = 0
    /\ current_page = "Events"
    /\ calendar = calendar_new(today)
    /\ add_event_page = add_event_new
    /\ cells = <<>>
    /\ event_rows = <<>>

(***************************************************************************)
(* utils.rs: the aggregation engine.                                       *)
(***************************************************************************)
MapPut(m, k, v) == [n \in (DOMAIN m) \cup {k} |-> IF n = k THEN v ELSE m[n]]

\* One record of the loop of get_days_since_now, the mapping so far in acc.
days_step_overwrite(acc, event, today) ==
    IF ~parse_ok(event.date) THEN acc
    ELSE MapPut(acc, event.name, <<signed_days_since(today, event.date)>>)

days_step_negated(acc, event, today) ==
    IF ~parse_ok(event.date) THEN acc
    ELSE LET days == signed_days_since(event.date, today)
         IN  IF event.name \in DOMAIN acc
             THEN [acc EXCEPT ![event.name] = Append(@, days)]
             ELSE MapPut(acc, event.name, <<days>>)

days_step_keep_unparsed(acc, event, today) ==
    LET days == IF parse_ok(event.date) THEN signed_days_since(today, event.date) ELSE 0
    IN  IF event.name \in DOMAIN acc
        THEN [acc EXCEPT ![event.name] = Append(@, days)]
        ELSE MapPut(acc, event.name, <<days>>)

days_step(acc, event, today) ==
    IF ~parse_ok(event.date) THEN acc
    ELSE LET days == signed_days_since(today, event.date)
         IN  IF event.name \in DOMAIN acc
             THEN [acc EXCEPT ![event.name] = Append(@, days)]
             ELSE MapPut(acc, event.name, <<days>>)

RECURSIVE days_loop(_, _, _)
days_loop(evs, today, acc) ==
    IF evs = <<>> THEN acc
    ELSE days_loop(Tail(evs), today, days_step(acc, Head(evs), today))

get_days_since_now(evs, today) == days_loop(evs, today, EmptyMap)

\* The inner loop of get_elapsed_days: for item in 1..len (0-based in the code).
RECURSIVE gaps_loop(_, _, _)
gaps_loop(v, item, days_vec) ==
    IF item >= Len(v) THEN days_vec
    ELSE gaps_loop(v, item + 1, Append(days_vec, v[item + 1] - v[item]))

gaps_reversed(v) == [i \in 1..(Len(v) - 1) |-> v[i] - v[i + 1]]

gaps_keep_single(days_since) ==
    [n \in {k \in DOMAIN days_since : Len(days_since[k]) >= 1} |->
        gaps_loop(days_since[n], 1, <<>>)]

gaps_from_first(v) == [i \in 1..(Len(v) - 1) |-> v[i + 1] - v[1]]

elapsed_of(v) == gaps_loop(v, 1, <<>>)

get_elapsed_days(days_since) ==
    [n \in {k \in DOMAIN days_since : Len(days_since[k]) > 1} |->
        elapsed_of(days_since[n])]

RECURSIVE SumSeq(_)
SumSeq(s) == IF s = <<>> THEN 0 ELSE Head(s) + SumSeq(Tail(s))

\* i32 division: truncates toward zero (b > 0 here).
div_floor(a, b) == a \div b

div_ceiling(a, b) == -((-a) \div b)

i32_div(a, b) == IF a >= 0 THEN a \div b ELSE -((-a) \div b)

averages_panics_no_events(gaps) ==
    gaps = EmptyMap \/ \E n \in DOMAIN gaps : Len(gaps[n]) = 0

\* get_averages panics (division by zero) on an empty sequence.
averages_panics(gaps) == \E n \in DOMAIN gaps : Len(gaps[n]) = 0

get_averages(gaps) ==
    [n \in DOMAIN gaps |-> i32_div(SumSeq(gaps[n]), Len(gaps[n]))]

\* sort_events panics (index out of bounds) on an empty sequence.
sort_panics(history) == \E n \in DOMAIN history : Len(history[n]) = 0

insert_unsorted(acc, e) == Append(acc, e)

\* Vec::sort_by is stable: e goes after every element that is not greater.
insert_stable(acc, e) ==
    LET k == Cardinality({i \in DOMAIN acc : acc[i][2] <= e[2]})
    IN  SubSeq(acc, 1, k) \o <<e>> \o SubSeq(acc, k + 1, Len(acc))

RECURSIVE sort_by_days(_, _)
sort_by_days(rest, acc) ==
    IF rest = <<>> THEN acc
    ELSE sort_by_days(Tail(rest), insert_stable(acc, Head(rest)))

tuple_last(history, avgs, n) ==
    <<n, history[n][Len(history[n])], IF n \in DOMAIN avgs THEN avgs[n] ELSE 0>>

tuple_days_for_missing(history, avgs, n) ==
    <<n, history[n][1], IF n \in DOMAIN avgs THEN avgs[n] ELSE history[n][1]>>

event_tuple(history, avgs, n) ==
    <<n, history[n][1], IF n \in DOMAIN avgs THEN avgs[n] ELSE 0>>

\* order: the order in which the HashMap yields its keys.
sort_events(history, avgs, order) ==
    sort_by_days([i \in DOMAIN order |-> event_tuple(history, avgs, order[i])], <<>>)

(***************************************************************************)
(* The engine functions as steps.  Each takes the label it starts from and *)
(* the label it ends in, so that the same step serves the pipeline         *)
(* (SpecEngine) and a call on its own (SpecFn).                            *)
(***************************************************************************)
DaysSinceNow(from, to) ==
    /\ pc = from
    /\ days_since_now' = get_days_since_now(events, now)
    /\ pc' = to
    /\ UNCHANGED <<foreign_keys, events_tbl, occurrences_tbl, now, events, store_fault,
                   elapsed, averages, sorted_events, app_vars>>

ElapsedDays(from, to) ==
    /\ pc = from
    /\ elapsed' = get_elapsed_days(days_since_now)
    /\ pc' = to
    /\ UNCHANGED <<foreign_keys, events_tbl, occurrences_tbl, now, events, store_fault,
                   days_since_now, averages, sorted_events, app_vars>>

Averages(from, to) ==
    /\ pc = from
    /\ IF averages_panics(elapsed)
       THEN pc' = "panicked" /\ UNCHANGED averages
       ELSE pc' = to /\ averages' = get_averages(elapsed)
    /\ UNCHANGED <<foreign_keys, events_tbl, occurrences_tbl, now, events, store_fault,
                   days_since_now, elapsed, sorted_events, app_vars>>

SortEvents(from, to) ==
    /\ pc = from
    /\ IF sort_panics(days_since_now)
       THEN pc' = "panicked" /\ UNCHANGED sorted_events
       ELSE /\ pc' = to
            /\ \E order \in IterOrders(DOMAIN days_since_now) :
                   sorted_events' = sort_events(days_since_now, averages, order)
    /\ UNCHANGED <<foreign_keys, events_tbl, occurrences_tbl, now, events, store_fault,
                   days_since_now, elapsed, averages, app_vars>>

(***************************************************************************)
(* SpecEngine: the pipeline of event_details over an arbitrary list.       *)
(***************************************************************************)
EngineRecords == [name : Names, date : EngineDates]
EngineLists == BoundedSeq(EngineRecords, MaxOcc) \cup {ScenarioEvents}

InitEngine ==
    /\ foreign_keys = FALSE
    /\ events_tbl = {}
    /\ occurrences_tbl = EmptyBag
    /\ now \in NowDates
    /\ events \in EngineLists
    /\ days_since_now = EmptyMap
    /\ elapsed = EmptyMap
    /\ averages = EmptyMap
    /\ sorted_events = <<>>
    /\ store_fault = "none"
    /\ pc = "start"
    /\ SinceWhenNew(now)

NextEngine ==
    \/ DaysSinceNow("start", "days")
    \/ ElapsedDays("days", "elapsed")
    \/ Averages("elapsed", "averages")
    \/ SortEvents("averages", "done")

SpecEngine == InitEngine /\ [][NextEngine]_vars

(***************************************************************************)
(* SpecFn: one call of one function on an arbitrary mapping.               *)
(***************************************************************************)
ArgSeqs == BoundedSeq(Vals, MaxLen) \cup DocSeqs

InitFn ==
    /\ foreign_keys = FALSE
    /\ events_tbl = {}
    /\ occurrences_tbl = EmptyBag
    /\ now = <<2023, 4, 22>>
    /\ events = <<>>
    /\ sorted_events = <<>>
    /\ store_fault = "none"
    /\ \/ /\ pc = "call_elapsed"
          /\ days_since_now \in Maps(ArgSeqs)
          /\ elapsed = EmptyMap
          /\ averages = EmptyMap
       \/ /\ pc = "call_averages"
          /\ elapsed \in Maps(ArgSeqs)
          /\ days_since_now = EmptyMap
          /\ averages = EmptyMap
       \/ /\ pc = "call_sort"
          /\ \/ days_since_now \in Maps(ArgSeqs) /\ averages \in Maps(AvgVals)
             \/ days_since_now = DocSortEvents /\ averages = DocSortAverages
          /\ elapsed = EmptyMap
    /\ SinceWhenNew(now)

NextFn ==
    \/ ElapsedDays("call_elapsed", "ret_elapsed")
    \/ Averages("call_averages", "ret_averages")
    \/ SortEvents("call_sort", "ret_sort")

SpecFn == InitFn /\ [][NextFn]_vars

(***************************************************************************)
(* database.rs: the two tables and the statements run on them.  Every      *)
(* statement goes through sql_insert, which logs a failed execute and      *)
(* returns Ok(id.0) all the same, so a failed statement changes nothing    *)
(* and the caller carries on.                                              *)
(***************************************************************************)
event_ids(tbl) == {e.id : e \in tbl}

\* INTEGER PRIMARY KEY: a new row gets the largest rowid in use plus one.
next_rowid(tbl) ==
    IF tbl = {} THEN 1
    ELSE (CHOOSE i \in event_ids(tbl) : \A j \in event_ids(tbl) : j <= i) + 1

\* INSERT INTO events (name) VALUES (?1); name is UNIQUE.
insert_event(tbl, name) ==
    IF \E e \in tbl : e.name = name THEN tbl
    ELSE tbl \cup {[id |-> next_rowid(tbl), name |-> name]}

\* SELECT id FROM events WHERE name = ?1; 0 when there is no such row.
get_event_id(tbl, name) ==
    IF \E e \in tbl : e.name = name
    THEN (CHOOSE e \in tbl : e.name = name).id
    ELSE 0

insert_occurrence_distinct(tbl, occ, fk, id, date) ==
    LET row == [event_id |-> id, year |-> date[1], month |-> date[2], day |-> date[3]]
    IN  IF (fk /\ id \notin {e.id : e \in tbl}) \/ row \in DOMAIN occ THEN occ
        ELSE occ (+) SetToBag({row})

\* INSERT INTO occurrences (event_id, year, month, day) VALUES (?1, ?2, ?3, ?4);
\* event_id REFERENCES events(id), checked only when foreign keys are enforced.
insert_occurrence(tbl, occ, fk, id, date) ==
    IF fk /\ id \notin event_ids(tbl) THEN occ
    ELSE occ (+) SetToBag({[event_id |-> id, year |-> date[1],
                           month |-> date[2], day |-> date[3]]})

delete_occurrences_none(occ, id) == occ

\* DELETE FROM occurrences WHERE event_id = ?1;
delete_occurrences(occ, id) ==
    [r \in {x \in DOMAIN occ : x.event_id # id} |-> occ[r]]

\* DELETE FROM events WHERE name = ?1; refused while a row still refers to it
\* when foreign keys are enforced.
delete_event_row(tbl, occ, fk, name) ==
    IF fk /\ \E r \in DOMAIN occ : r.event_id = get_event_id(tbl, name) /\ r.event_id # 0
    THEN tbl
    ELSE {e \in tbl : e.name # name}

\* ORDER BY year, month, day DESC: year and month ascending, day descending.
order_before(a, b) ==
    \/ a.year < b.year
    \/ a.year = b.year /\ a.month < b.month
    \/ a.year = b.year /\ a.month = b.month /\ a.day > b.day

\* events JOIN occurrences ON events.id = occurrences.event_id
joined_rows(tbl, occ) ==
    {j \in [name : {e.name : e \in tbl}, row : DOMAIN occ] :
        \E e \in tbl : e.name = j.name /\ e.id = j.row.event_id}

\* The rows of the query in ORDER BY order.  Rows that tie have the same date,
\* so which of them comes first does not show in any event's sequence.
RECURSIVE ordered_rows(_, _)
ordered_rows(J, occ) ==
    IF J = {} THEN <<>>
    ELSE LET first == CHOOSE x \in J : \A y \in J : ~order_before(y.row, x.row)
             rec == [name |-> first.name,
                     date |-> <<first.row.year, first.row.month, first.row.day>>]
         IN  [i \in 1..occ[first.row] |-> rec] \o ordered_rows(J \ {first}, occ)

get_events(tbl, occ) == ordered_rows(joined_rows(tbl, occ), occ)

\* A store command discards the summary on display: event_details builds it
\* anew on every view and nothing of it is kept.  pc names the command.
ClearSummary(command) ==
    /\ events' = <<>>
    /\ days_since_now' = EmptyMap
    /\ elapsed' = EmptyMap
    /\ averages' = EmptyMap
    /\ sorted_events' = <<>>
    /\ store_fault' = "none"
    /\ pc' = command

\* A panic ends the process: no handler runs after it.
Running == pc # "panicked"

add_event(event, date) ==
    LET tbl == insert_event(events_tbl, event)
        id == get_event_id(tbl, event)
    IN  /\ Running
        /\ BagCardinality(occurrences_tbl) < MaxRows
        /\ \A e \in tbl : e.id <= MaxId
        /\ events_tbl' = tbl
        /\ occurrences_tbl' =
               insert_occurrence(tbl, occurrences_tbl, foreign_keys, id, date)
        /\ ClearSummary("add_event")
        /\ UNCHANGED <<foreign_keys, now, app_vars>>

update_event(event, date) ==
    LET id == get_event_id(events_tbl, event)
    IN  /\ Running
        /\ BagCardinality(occurrences_tbl) < MaxRows
        /\ occurrences_tbl' =
               insert_occurrence(events_tbl, occurrences_tbl, foreign_keys, id, date)
        /\ ClearSummary("update_event")
        /\ UNCHANGED <<foreign_keys, events_tbl, now, app_vars>>

delete_event(event) ==
    LET id == get_event_id(events_tbl, event)
        occ == delete_occurrences(occurrences_tbl, id)
    IN  /\ Running
        /\ occurrences_tbl' = occ
        /\ events_tbl' = delete_event_row(events_tbl, occ, foreign_keys, event)
        /\ ClearSummary("delete_event")
        /\ UNCHANGED <<foreign_keys, now, app_vars>>

AddEvent == \E event \in Names, date \in StoreDates : add_event(event, date)

UpdateEvent == \E event \in Names, date \in StoreDates : update_event(event, date)

DeleteEvent == \E event \in Names : delete_event(event)

\* What can go wrong with the store during event_details: Connection::open
\* fails, conn.prepare fails, or stmt.query_map fails.
StoreFaults == {"none", "open", "prepare", "query"}

\* setup_connection and prepare_stmt panic on their error.
store_panics(fault) == fault \in {"open", "prepare"}

\* The list event_details works on: vec![] when get_events returns Err.
events_or_empty(fault, tbl, occ) ==
    IF fault = "query" THEN <<>> ELSE get_events(tbl, occ)

\* event_details: the list query, then the four engine functions.
event_details(fault) ==
    LET evs == events_or_empty(fault, events_tbl, occurrences_tbl)
        history == get_days_since_now(evs, now)
        gaps == get_elapsed_days(history)
        avgs == get_averages(gaps)
    IN  /\ Running
        /\ store_fault' = fault
        /\ IF store_panics(fault)
           THEN /\ pc' = "panicked"
                /\ UNCHANGED <<events, days_since_now, elapsed, averages, sorted_events>>
           ELSE /\ events' = evs
                /\ days_since_now' = history
                /\ elapsed' = gaps
                /\ averages' = avgs
                /\ \E order \in IterOrders(DOMAIN history) :
                       sorted_events' = sort_events(history, avgs, order)
                /\ pc' = "viewed"
        /\ UNCHANGED <<foreign_keys, events_tbl, occurrences_tbl, now, app_vars>>

EventDetails == \E fault \in StoreFaults : event_details(fault)

Init ==
    /\ foreign_keys \in BOOLEAN
    /\ events_tbl = {}
    /\ occurrences_tbl = EmptyBag
    /\ now \in NowDates
    /\ events = <<>>
    /\ days_since_now = EmptyMap
    /\ elapsed = EmptyMap
    /\ averages = EmptyMap
    /\ sorted_events = <<>>
    /\ store_fault = "none"
    /\ pc = "idle"
    /\ SinceWhenNew(now)

Next ==
    \/ UpdateEvent
    \/ AddEvent
    \/ DeleteEvent
    \/ EventDetails

Spec == Init /\ [][Next]_vars

(***************************************************************************)
(* calendar.rs: the calendar page.                                         *)
(***************************************************************************)
store_vars == <<foreign_keys, events_tbl, occurrences_tbl>>
engine_vars == <<now, events, days_since_now, elapsed, averages, sorted_events,
                 store_fault>>

\* The years the calendar page is paged through.
CalYears == 2023..2026

previous_month_same_year(cal) ==
    IF cal.month = 1 THEN [month |-> 12, year |-> cal.year]
    ELSE [month |-> cal.month - 1, year |-> cal.year]

\* Calendar::update on PreviousMonth.
previous_month(cal) ==
    IF cal.month = 1 THEN [month |-> 12, year |-> cal.year - 1]
    ELSE [month |-> cal.month - 1, year |-> cal.year]

next_month_no_wrap(cal) == [month |-> cal.month + 1, year |-> cal.year]

\* Calendar::update on NextMonth.
next_month(cal) ==
    IF cal.month = 12 THEN [month |-> 1, year |-> cal.year + 1]
    ELSE [month |-> cal.month + 1, year |-> cal.year]

\* Calendar::update: every other message leaves the calendar alone.
calendar_update(cal, message) ==
    IF message = "PreviousMonth" THEN previous_month(cal)
    ELSE IF message = "NextMonth" THEN next_month(cal)
    ELSE cal

\* The number of days of the month.
last_day_of_month(y, m) == DaysInMonth(y, m)

calendar_day_inclusive(i, from_sun, last_day) ==
    IF from_sun <= i /\ i <= last_day + from_sun THEN i - (from_sun - 1) ELSE 0

\* The day on button i of the grid (i in 0..41), 0 for a blank one.
calendar_day(i, from_sun, last_day) ==
    IF from_sun <= i /\ i < last_day + from_sun THEN i - (from_sun - 1) ELSE 0

\* Calendar::calendar: the days of the 42 buttons, button i at index i + 1.
calendar_cells(cal) ==
    LET from_sun == num_days_from_sunday(<<cal.year, cal.month, 1>>)
        last_day == last_day_of_month(cal.year, cal.month)
    IN  [k \in 1..42 |-> calendar_day(k - 1, from_sun, last_day)]

\* The day DayClicked carries when button i of the grid is pressed.
button_day(cal, i) ==
    calendar_day(i, num_days_from_sunday(<<cal.year, cal.month, 1>>),
                 last_day_of_month(cal.year, cal.month))

\* Calendar::view panics in nav_row on a month outside 1..12 and in get_date
\* on a day the month does not have.
calendar_panics(cal) ==
    \/ cal.month \notin 1..12
    \/ LET grid == calendar_cells(cal)
       IN  \E k \in 1..42 :
               grid[k] # 0 /\ ~parse_ok(<<cal.year, cal.month, grid[k]>>)

\* One NextMonth or PreviousMonth message, while the year stays in years.
CalendarMessage(message, years) ==
    /\ Running
    /\ calendar_update(calendar, message).year \in years
    /\ calendar' = calendar_update(calendar, message)
    /\ pc' = message
    /\ UNCHANGED <<store_vars, engine_vars, day, month, year, current_page,
                   add_event_page, cells, event_rows>>

CalNextMonth == CalendarMessage("NextMonth", CalYears)

CalPreviousMonth == CalendarMessage("PreviousMonth", CalYears)

\* Calendar::view: the page is drawn for the month the calendar is at.
CalendarView ==
    /\ Running
    /\ IF calendar_panics(calendar)
       THEN pc' = "panicked" /\ UNCHANGED cells
       ELSE pc' = "calendar_view" /\ cells' = calendar_cells(calendar)
    /\ UNCHANGED <<store_vars, engine_vars, day, month, year, current_page,
                   calendar, add_event_page, event_rows>>

InitCal ==
    /\ foreign_keys = FALSE
    /\ events_tbl = {}
    /\ occurrences_tbl = EmptyBag
    /\ now = <<2023, 4, 22>>
    /\ events = <<>>
    /\ days_since_now = EmptyMap
    /\ elapsed = EmptyMap
    /\ averages = EmptyMap
    /\ sorted_events = <<>>
    /\ store_fault = "none"
    /\ pc = "CalendarWindow"
    /\ day = 0
    /\ month = 0
    /\ year = 0
    /\ current_page = "Calendar"
    /\ calendar \in [month : 1..12, year : CalYears]
    /\ add_event_page = add_event_new
    /\ cells = <<>>
    /\ event_rows = <<>>

NextCal ==
    \/ CalNextMonth
    \/ CalPreviousMonth
    \/ CalendarView

SpecCal == InitCal /\ [][NextCal]_vars

(***************************************************************************)
(* app.rs: SinceWhen::update under the messages of the page on display,    *)
(* with AddEvent::update of add_event.rs.  The runtime draws the page      *)
(* after every update, so a view that panics ends the step in "panicked".  *)
(***************************************************************************)
\* The day the application is started on, the months paged through and the
\* text typed into the text box.
AppNow == <<2024, 1, 15>>
AppMonths == {[month |-> 1, year |-> 2024], [month |-> 2, year |-> 2024]}
Texts == {"A"}

\* The buttons of the grid that are pressed: the blank one before the 1st,
\* the 1st, the last day, and the blank one after it.
ClickCells(cal) ==
    LET from_sun == num_days_from_sunday(<<cal.year, cal.month, 1>>)
        last_day == last_day_of_month(cal.year, cal.month)
    IN  {from_sun - 1, from_sun, from_sun + last_day - 1, from_sun + last_day}
            \cap (0..41)

\* page emits its messages: it is the one on display and nothing panicked.
Shown(page) == Running /\ current_page = page

\* SinceWhen::view panics when the page it draws does: Calendar::view, or
\* AddEvent::view on NaiveDate::from_ymd_opt(year, month, day).unwrap().
view_panics(page, cal, d, m, y) ==
    \/ page = "Calendar" /\ calendar_panics(cal)
    \/ page = "AddEvent" /\ ~parse_ok(<<y, m, d>>)

\* pc after the update of message and the drawing of the page it leaves.
Drawn(message) ==
    pc' = IF view_panics(current_page', calendar', day', month', year')
          THEN "panicked" ELSE message

AppCalendarMessage(message) ==
    /\ Shown("Calendar")
    /\ calendar_update(calendar, message) \in AppMonths
    /\ calendar' = calendar_update(calendar, message)
    /\ UNCHANGED <<day, month, year, current_page>>
    /\ Drawn(message)
    /\ UNCHANGED <<store_vars, engine_vars, add_event_page, cells, event_rows>>

AppNextMonth == AppCalendarMessage("NextMonth")

AppPreviousMonth == AppCalendarMessage("PreviousMonth")

day_clicked_unguarded(d, m, y) ==
    /\ day' = d
    /\ month' = m
    /\ year' = y
    /\ current_page' = "AddEvent"

day_clicked_keep_page(d, m, y) ==
    IF d = 0 THEN UNCHANGED <<day, month, year, current_page>>
    ELSE /\ day' = d
         /\ month' = m
         /\ year' = y
         /\ UNCHANGED current_page

\* SinceWhen::update on DayClicked(d, m, y).
day_clicked(d, m, y) ==
    IF d = 0 THEN UNCHANGED <<day, month, year, current_page>>
    ELSE /\ day' = d
         /\ month' = m
         /\ year' = y
         /\ current_page' = "AddEvent"

\* Button i of the grid is pressed: DayClicked(day, self.month, self.year).
ClickDay(i) ==
    /\ Shown("Calendar")
    /\ day_clicked(button_day(calendar, i), calendar.month, calendar.year)
    /\ UNCHANGED calendar
    /\ Drawn("DayClicked")
    /\ UNCHANGED <<store_vars, engine_vars, add_event_page, cells, event_rows>>

AppDayClicked == \E i \in ClickCells(calendar) : ClickDay(i)

\* AddEvent::update: the date is built first, then the message is served.
AddEventUpdate(message, text) ==
    LET date == <<year, month, day>>
        name == add_event_page.event
        added == insert_event(events_tbl, name)
        id == get_event_id(events_tbl, name)
        kept == delete_occurrences(occurrences_tbl, id)
    IN  /\ Shown("AddEvent")
        /\ message \in {"AddEvent", "UpdateEvent"} =>
               /\ BagCardinality(occurrences_tbl) < MaxAppRows
               /\ \A e \in added : e.id <= MaxId
        /\ UNCHANGED <<day, month, year, current_page, calendar, foreign_keys>>
        /\ IF ~parse_ok(date)
           THEN /\ pc' = "panicked"
                /\ UNCHANGED <<events_tbl, occurrences_tbl, add_event_page>>
           ELSE /\ add_event_page' =
                       [date |-> date,
                        event |-> IF message = "TextEvent" THEN text ELSE name]
                /\ IF message = "AddEvent"
                   THEN /\ events_tbl' = added
                        /\ occurrences_tbl' =
                               insert_occurrence(added, occurrences_tbl, foreign_keys,
                                                 get_event_id(added, name), date)
                   ELSE IF message = "UpdateEvent"
                   THEN /\ events_tbl' = events_tbl
                        /\ occurrences_tbl' =
                               insert_occurrence(events_tbl, occurrences_tbl,
                                                 foreign_keys, id, date)
                   ELSE IF message = "DeleteEvent"
                   THEN /\ occurrences_tbl' = kept
                        /\ events_tbl' =
                               delete_event_row(events_tbl, kept, foreign_keys, name)
                   ELSE UNCHANGED <<events_tbl, occurrences_tbl>>
                /\ Drawn(message)
        /\ UNCHANGED <<engine_vars, cells, event_rows>>

AppAddEvent == AddEventUpdate("AddEvent", "")

AppUpdateEvent == AddEventUpdate("UpdateEvent", "")

AppDeleteEvent == AddEventUpdate("DeleteEvent", "")

AppTextEvent == \E text \in Texts : AddEventUpdate("TextEvent", text)

\* CalendarWindow and EventsWindow, from the pages that have the button.
AppWindow(message, page, from) ==
    /\ Running
    /\ current_page \in from
    /\ current_page' = page
    /\ UNCHANGED <<day, month, year, calendar>>
    /\ Drawn(message)
    /\ UNCHANGED <<store_vars, engine_vars, add_event_page, cells, event_rows>>

AppCalendarWindow == AppWindow("CalendarWindow", "Calendar", {"Events", "AddEvent"})

AppEventsWindow == AppWindow("EventsWindow", "Events", {"Calendar", "AddEvent"})

InitApp ==
    /\ foreign_keys \in BOOLEAN
    /\ events_tbl = {}
    /\ occurrences_tbl = EmptyBag
    /\ now = AppNow
    /\ events = <<>>
    /\ days_since_now = EmptyMap
    /\ elapsed = EmptyMap
    /\ averages = EmptyMap
    /\ sorted_events = <<>>
    /\ store_fault = "none"
    /\ pc = "new"
    /\ SinceWhenNew(now)

NextApp ==
    \/ AppNextMonth
    \/ AppPreviousMonth
    \/ AppDayClicked
    \/ AppAddEvent
    \/ AppUpdateEvent
    \/ AppDeleteEvent
    \/ AppTextEvent
    \/ AppCalendarWindow
    \/ AppEventsWindow

SpecApp == InitApp /\ [][NextApp]_vars

(***************************************************************************)
(* events.rs: EventsPage::view.  The page runs its own copies of           *)
(* get_days_since_now, get_elapsed_days and get_averages, which build the  *)
(* same mappings as those of utils.rs except that a date that does not     *)
(* parse is unwrapped, and then writes one row per event.                  *)
(***************************************************************************)
\* NaiveDate::parse_from_str(...).unwrap() on every record of the list.
events_view_panics(evs) == \E i \in DOMAIN evs : ~parse_ok(evs[i].date)

\* format!(text, n, plural): the text with its arguments, plural being "s"
\* for n > 1.
format_days(text, n) ==
    [text |-> text, number |-> n, plural |-> IF n > 1 THEN "s" ELSE ""]

\* The three texts pushed for event n: its name, "{} day{} ago" and the
\* text of the average column.
event_row(history, avgs, n) ==
    LET days == history[n][1]
    IN  [event |-> n,
         days_text |-> format_days("{} day{} ago", days),
         average_text |-> IF n \in DOMAIN avgs
                          THEN format_days("{} day{} avg", avgs[n])
                          ELSE format_days("{} day{} avg", days)]

EventsPageView ==
    LET history == get_days_since_now(events, now)
        gaps == get_elapsed_days(history)
        avgs == get_averages(gaps)
    IN  /\ pc = "start"
        /\ IF events_view_panics(events)
           THEN /\ pc' = "panicked"
                /\ UNCHANGED <<days_since_now, elapsed, averages, event_rows>>
           ELSE /\ days_since_now' = history
                /\ elapsed' = gaps
                /\ averages' = avgs
                /\ \E order \in IterOrders(DOMAIN history) :
                       event_rows' =
                           [i \in DOMAIN order |-> event_row(history, avgs, order[i])]
                /\ pc' = "events_view"
        /\ UNCHANGED <<store_vars, now, events, sorted_events, store_fault, day,
                       month, year, current_page, calendar, add_event_page, cells>>

InitView == InitEngine

NextView == EventsPageView

SpecView == InitView /\ [][NextView]_vars

(***************************************************************************)
(* Properties.                                                             *)
(***************************************************************************)
AfterDays == pc \in {"days", "elapsed", "averages", "done"}
AfterElapsed == pc \in {"elapsed", "averages", "done"}

IsAscending(s) == \A i \in 1..(Len(s) - 1) : s[i] <= s[i + 1]

\* The positions of the records of event n in the list evs, parseable or not.
PositionsOf(evs, n) == {i \in DOMAIN evs : evs[i].name = n}

\* s in ascending order.
RECURSIVE Ascending(_)
Ascending(s) ==
    IF s = <<>> THEN <<>>
    ELSE LET i == CHOOSE k \in DOMAIN s : \A j \in DOMAIN s : s[k] <= s[j]
         IN  <<s[i]>> \o Ascending(SubSeq(s, 1, i - 1) \o SubSeq(s, i + 1, Len(s)))

Differences(s) == [i \in 1..(Len(s) - 1) |-> s[i + 1] - s[i]]

\* C1: whatever the order of the records, every per-event sequence returned
\* by get_days_since_now is sorted ascending (index 0 the most recent).
C1_HistorySortedAscending ==
    AfterDays => \A n \in DOMAIN days_since_now : IsAscending(days_since_now[n])

\* The days since each stored occurrence of the event called name.
StoredDaysOf(name) ==
    {signed_days_since(now, <<r.year, r.month, r.day>>) :
        r \in {x \in DOMAIN occurrences_tbl :
                 \E e \in events_tbl : e.name = name /\ e.id = x.event_id}}

\* C2: the second element of every tuple of the summary of event_details is
\* the number of days since the most recent occurrence of that event: the
\* minimum of now - date over its stored occurrences.
C2_SummaryReportsMostRecent ==
    pc = "viewed" =>
        \A i \in DOMAIN sorted_events :
            /\ sorted_events[i][2] \in StoredDaysOf(sorted_events[i][1])
            /\ \A d \in StoredDaysOf(sorted_events[i][1]) : sorted_events[i][2] <= d

\* C3: for records in any order the gaps of an event are the differences
\* between chronologically consecutive occurrences, so none is negative; the
\* scenario A on 04-01, 04-11, 04-06, 04-12 seen from 2023-04-22 gives [1,5,5].
C3_GapsBetweenConsecutiveOccurrences ==
    AfterElapsed =>
        /\ \A n \in DOMAIN elapsed :
              /\ elapsed[n] = Differences(Ascending(days_since_now[n]))
              /\ \A i \in DOMAIN elapsed[n] : elapsed[n][i] >= 0
        /\ (events = ScenarioEvents /\ now = <<2023, 4, 22>>)
              => elapsed = [n \in {"A"} |-> <<1, 5, 5>>]

AllParse(evs) == \A i \in DOMAIN evs : parse_ok(evs[i].date)

\* C4: when every date parses, the keys of the result of get_days_since_now
\* are the event names of the input and each sequence has one entry per
\* record of that name.
C4_GroupsByName ==
    (AfterDays /\ AllParse(events)) =>
        /\ DOMAIN days_since_now = {events[i].name : i \in DOMAIN events}
        /\ \A n \in DOMAIN days_since_now :
              Len(days_since_now[n]) = Cardinality(PositionsOf(events, n))

C4_Witness ==
    /\ pc = "days"
    /\ AllParse(events)
    /\ Len(events) = 3
    /\ Cardinality(PositionsOf(events, "A")) = 2
    /\ Len(days_since_now["A"]) = 2
    /\ Len(days_since_now["B"]) = 1

\* The parseable records of event n, in input order.
ParsedOf(evs, n) == SelectSeq(evs, LAMBDA e : e.name = n /\ parse_ok(e.date))

\* Date a (year, month, day) comes after date b.
IsLater(a, b) ==
    \/ a[1] > b[1]
    \/ a[1] = b[1] /\ a[2] > b[2]
    \/ a[1] = b[1] /\ a[2] = b[2] /\ a[3] > b[3]

\* C5: every stored count is the whole-day difference now - date against the
\* one reference date of the pass; a record dated after now is kept, with a
\* negative count.
C5_DaysAreNowMinusDate ==
    AfterDays =>
        /\ \A n \in DOMAIN days_since_now :
              /\ Len(days_since_now[n]) = Len(ParsedOf(events, n))
              /\ \A i \in DOMAIN days_since_now[n] :
                    /\ days_since_now[n][i] =
                          num_days_from_ce(now) - num_days_from_ce(ParsedOf(events, n)[i].date)
                    /\ (days_since_now[n][i] < 0) <=>
                          IsLater(ParsedOf(events, n)[i].date, now)
        /\ (events = ScenarioEvents /\ now = <<2023, 4, 22>>)
              => days_since_now = [n \in {"A"} |-> <<21, 11, 16, 10>>]
        /\ (events = <<[name |-> "B", date |-> <<2022, 12, 31>>],
                       [name |-> "B", date |-> <<2023, 4, 25>>]>>)
              => days_since_now =
                    [n \in {"B"} |-> IF now = <<2023, 4, 22>> THEN <<112, -3>>
                                                              ELSE <<426, 311>>]

C5_Witness ==
    /\ pc = "days"
    /\ now = <<2023, 4, 22>>
    /\ events = <<[name |-> "A", date |-> <<2023, 4, 25>>],
                  [name |-> "A", date |-> <<2023, 3, 10>>]>>
    /\ days_since_now["A"] = <<-3, 43>>

\* C6: get_elapsed_days has no key for an event with fewer than 2 entries and
\* maps an event with n >= 2 entries to exactly n - 1 gaps.
C6_GapsOmitShortHistories ==
    pc = "ret_elapsed" =>
        /\ \A n \in DOMAIN days_since_now :
              Len(days_since_now[n]) < 2 => n \notin DOMAIN elapsed
        /\ \A n \in DOMAIN days_since_now :
              Len(days_since_now[n]) >= 2 =>
                  n \in DOMAIN elapsed /\ Len(elapsed[n]) = Len(days_since_now[n]) - 1
        /\ DOMAIN elapsed \subseteq DOMAIN days_since_now

C6_Witness ==
    /\ pc = "ret_elapsed"
    /\ DOMAIN days_since_now = {"A", "B"}
    /\ Len(days_since_now["A"]) = 1
    /\ Len(days_since_now["B"]) = 3
    /\ DOMAIN elapsed = {"B"}
    /\ Len(elapsed["B"]) = 2

\* C7: for an event with at least 2 entries gap[i] = seq[i+1] - seq[i] in the
\* order of the input sequence; [1,11,22,33,44] gives [10,11,11,11] and
\* [1,6,8,16,20] gives [5,2,8,4].
C7_GapsAreConsecutiveDifferences ==
    pc = "ret_elapsed" =>
        \A n \in DOMAIN days_since_now :
            Len(days_since_now[n]) >= 2 =>
                /\ n \in DOMAIN elapsed
                /\ \A i \in 1..(Len(days_since_now[n]) - 1) :
                      elapsed[n][i] = days_since_now[n][i + 1] - days_since_now[n][i]
                /\ days_since_now[n] = <<1, 11, 22, 33, 44>>
                      => elapsed[n] = <<10, 11, 11, 11>>
                /\ days_since_now[n] = <<1, 6, 8, 16, 20>>
                      => elapsed[n] = <<5, 2, 8, 4>>

C7_Witness ==
    /\ pc = "ret_elapsed"
    /\ days_since_now = [n \in {"A", "B"} |->
                            IF n = "A" THEN <<1, 11, 22, 33, 44>> ELSE <<1, 6, 8, 16, 20>>]
    /\ elapsed = [n \in {"A", "B"} |->
                     IF n = "A" THEN <<10, 11, 11, 11>> ELSE <<5, 2, 8, 4>>]

\* q is s / c with the quotient truncated toward zero (c > 0): the remainder
\* is smaller than c in size and has the sign of s.
IsTruncatedQuotient(q, s, c) ==
    LET r == s - q * c
    IN  IF s >= 0 THEN 0 <= r /\ r < c ELSE -c < r /\ r <= 0

\* C8: get_averages returns sum(gaps) / count(gaps) truncated toward zero,
\* also for a negative sum; [10,11,11,11] gives 10, [1,11,22,33,44] gives 22.
C8_AverageTruncatesTowardZero ==
    pc = "ret_averages" =>
        /\ DOMAIN averages = DOMAIN elapsed
        /\ \A n \in DOMAIN elapsed :
              /\ IsTruncatedQuotient(averages[n], SumSeq(elapsed[n]), Len(elapsed[n]))
              /\ elapsed[n] = <<10, 11, 11, 11>> => averages[n] = 10
              /\ elapsed[n] = <<1, 11, 22, 33, 44>> => averages[n] = 22

C8_Witness ==
    /\ pc = "ret_averages"
    /\ elapsed = [n \in {"A", "B"} |-> IF n = "A" THEN <<-3, 0>> ELSE <<10, 11, 11, 11>>]
    /\ averages = [n \in {"A", "B"} |-> IF n = "A" THEN -1 ELSE 10]

\* C9: the average of every event is the floor of the mean of its gaps (the
\* greatest integer <= sum / count), also when the sum is negative.
C9_AverageIsFloorOfMean ==
    pc = "ret_averages" =>
        \A n \in DOMAIN elapsed :
            /\ n \in DOMAIN averages
            /\ averages[n] * Len(elapsed[n]) <= SumSeq(elapsed[n])
            /\ SumSeq(elapsed[n]) < (averages[n] + 1) * Len(elapsed[n])

\* C9 as amended: the average is the mean truncated toward zero; it is the
\* floor of the mean when the sum is not negative or the count divides it,
\* and one more than the floor otherwise.
C9_AverageIsFloorOrOneMore ==
    pc = "ret_averages" =>
        \A n \in DOMAIN elapsed :
            LET s == SumSeq(elapsed[n])
                c == Len(elapsed[n])
            IN  /\ n \in DOMAIN averages
                /\ averages[n] = IF s >= 0 \/ s % c = 0 THEN s \div c ELSE (s \div c) + 1

C9_Witness ==
    /\ pc = "ret_averages"
    /\ \E n \in DOMAIN elapsed :
          /\ elapsed[n] = <<-3, -3, 2>>
          /\ averages[n] = -1
    /\ \E n \in DOMAIN elapsed :
          /\ elapsed[n] = <<2, 2, 0>>
          /\ averages[n] = 1

\* C10: sort_events returns one tuple for each key of the history mapping
\* and no other, and the tuple of name is
\* (name, history[name][0], averages[name] if present else 0).
C10_OneTuplePerEvent ==
    pc = "ret_sort" =>
        /\ Len(sorted_events) = Cardinality(DOMAIN days_since_now)
        /\ \A i \in DOMAIN sorted_events : sorted_events[i][1] \in DOMAIN days_since_now
        /\ \A n \in DOMAIN days_since_now :
              \E i \in DOMAIN sorted_events :
                  /\ sorted_events[i] =
                        <<n, days_since_now[n][1],
                          IF n \in DOMAIN averages THEN averages[n] ELSE 0>>
                  /\ \A j \in DOMAIN sorted_events :
                        sorted_events[j][1] = n => j = i

C10_Witness ==
    /\ pc = "ret_sort"
    /\ days_since_now = [n \in {"A", "B"} |-> IF n = "A" THEN <<2, 0>> ELSE <<0, 2, -3>>]
    /\ averages = [n \in {"A"} |-> 3]
    /\ sorted_events = << <<"B", 0, 0>>, <<"A", 2, 3>> >>

\* C11: the sequence returned by sort_events is in non-decreasing order of
\* its second element; {foo: [4,...], bar: [1,...]} with averages
\* {foo: 22, bar: 11} gives [(bar,1,11),(foo,4,22)].
C11_SummaryAscendingByDays ==
    pc = "ret_sort" =>
        /\ \A i \in 1..(Len(sorted_events) - 1) :
              sorted_events[i][2] <= sorted_events[i + 1][2]
        /\ (days_since_now = DocSortEvents /\ averages = DocSortAverages)
              => sorted_events = << <<"bar", 1, 11>>, <<"foo", 4, 22>> >>

C11_Witness ==
    /\ pc = "ret_sort"
    /\ days_since_now = DocSortEvents
    /\ averages = DocSortAverages
    /\ sorted_events = << <<"bar", 1, 11>>, <<"foo", 4, 22>> >>

\* C12: the pipeline run twice on the same occurrence list with the same
\* reference date gives the same output, the order of events with equal
\* days-since values included, whatever the map iteration orders.
C12_RerunGivesSameSummary ==
    [][(pc = "viewed" /\ pc' = "viewed" /\ events' = events /\ now' = now)
          => sorted_events' = sorted_events]_vars

\* C13: an event with exactly one occurrence has no key in the result of
\* get_elapsed_days and none in the result of get_averages, and has exactly
\* one tuple in the result of sort_events, with average 0.
C13_SingleOccurrence ==
    \A n \in DOMAIN days_since_now :
        (AfterDays /\ Len(days_since_now[n]) = 1) =>
            /\ n \notin DOMAIN elapsed
            /\ n \notin DOMAIN averages
            /\ pc = "done" =>
                  /\ Cardinality({i \in DOMAIN sorted_events : sorted_events[i][1] = n}) = 1
                  /\ \A i \in DOMAIN sorted_events :
                        sorted_events[i][1] = n => sorted_events[i][3] = 0

C13_Witness ==
    /\ pc = "done"
    /\ DOMAIN days_since_now = {"A", "B"}
    /\ Len(days_since_now["A"]) = 1
    /\ Len(days_since_now["B"]) = 2
    /\ DOMAIN elapsed = {"B"}
    /\ DOMAIN averages = {"B"}
    /\ \E i \in DOMAIN sorted_events :
          sorted_events[i] = <<"A", days_since_now["A"][1], 0>>
    /\ days_since_now["A"][1] # 0

\* C14: every sequence of the result of get_days_since_now and every
\* sequence of the result of get_elapsed_days is non-empty, so in the
\* pipeline get_averages never divides by a zero length and sort_events
\* never indexes an empty sequence.
C14_SequencesNonEmpty ==
    /\ \A n \in DOMAIN days_since_now : Len(days_since_now[n]) >= 1
    /\ \A n \in DOMAIN elapsed : Len(elapsed[n]) >= 1
    /\ ~averages_panics(elapsed)
    /\ ~sort_panics(days_since_now)
    /\ pc # "panicked"

C14_Witness ==
    /\ pc = "done"
    /\ Len(events) = 3
    /\ \E i \in DOMAIN events : events[i].name = "B" /\ ~parse_ok(events[i].date)
    /\ DOMAIN days_since_now = {"A"}
    /\ Len(days_since_now["A"]) = 2
    /\ Len(elapsed["A"]) = 1
    /\ Len(sorted_events) = 1

\* C15: each engine function returns without an error for every input of
\* its type, a mapping with an empty sequence included.
C15_EngineFunctionsTotal ==
    pc \in {"call_elapsed", "call_averages", "call_sort",
            "ret_elapsed", "ret_averages", "ret_sort"}

\* C16: for the empty occurrence list each of the four functions returns an
\* empty collection and none raises an error.
C16_EmptyListGivesEmptyResults ==
    events = <<>> =>
        /\ pc # "panicked"
        /\ days_since_now = EmptyMap
        /\ elapsed = EmptyMap
        /\ averages = EmptyMap
        /\ sorted_events = <<>>

C16_Witness ==
    /\ pc = "done"
    /\ events = <<>>
    /\ DOMAIN days_since_now = {}
    /\ Len(sorted_events) = 0

\* The records of evs whose date parses, in input order.
Parsed(evs) == SelectSeq(evs, LAMBDA e : parse_ok(e.date))

\* C17: a record whose date does not parse is dropped: it adds no entry,
\* the history is the one the list without it gives, nothing fatal happens,
\* and an event with no parseable record has no key.
C17_UnparseableRecordsDropped ==
    AfterDays =>
        /\ pc # "panicked"
        /\ DOMAIN days_since_now = {Parsed(events)[i].name : i \in DOMAIN Parsed(events)}
        /\ \A n \in DOMAIN days_since_now :
              Len(days_since_now[n]) =
                  Cardinality({i \in DOMAIN events :
                                 events[i].name = n /\ parse_ok(events[i].date)})
        /\ days_since_now = get_days_since_now(Parsed(events), now)
        /\ AfterElapsed => elapsed = get_elapsed_days(get_days_since_now(Parsed(events), now))

C17_Witness ==
    /\ pc = "done"
    /\ now = <<2023, 4, 22>>
    /\ events = << [name |-> "A", date |-> <<2023, 2, 30>>],
                   [name |-> "A", date |-> <<2023, 4, 11>>],
                   [name |-> "B", date |-> <<2023, 2, 30>>] >>
    /\ days_since_now = [n \in {"A"} |-> <<11>>]
    /\ sorted_events = << <<"A", 11, 0>> >>

\* C18: when the store cannot be opened or the list query fails,
\* event_details does not crash and returns the empty summary.
C18_StoreFailureGivesEmptySummary ==
    store_fault # "none" => (pc = "viewed" /\ sorted_events = <<>>)

\* C19: add_event for a name that is already in the events table adds no
\* occurrence: both tables are left as they were.
C19_DuplicateAddChangesNothing ==
    [][\A event \in Names, date \in StoreDates :
          (add_event(event, date) /\ \E e \in events_tbl : e.name = event)
              => UNCHANGED <<events_tbl, occurrences_tbl>>]_vars

\* C20: update_event for a name that is not in the events table stores no
\* occurrence row.
C20_UnknownUpdateStoresNothing ==
    [][\A event \in Names, date \in StoreDates :
          (update_event(event, date) /\ ~\E e \in events_tbl : e.name = event)
              => occurrences_tbl' = occurrences_tbl]_vars

\* The occurrence row of event id on date.
RowOf(id, date) ==
    [event_id |-> id, year |-> date[1], month |-> date[2], day |-> date[3]]

HasEvent(tbl, name) == \E e \in tbl : e.name = name

\* The records get_events lists for name.
ListedFor(tbl, occ, name) == SelectSeq(get_events(tbl, occ), LAMBDA e : e.name = name)

\* C21: delete_event on an existing event removes its row and every
\* occurrence row of its id and leaves every other event and occurrence as
\* it was; an add_event of a name that is not stored then lists only the
\* occurrence it adds.
C21_DeleteCascades ==
    [][/\ \A event \in Names :
            (delete_event(event) /\ HasEvent(events_tbl, event)) =>
                LET id == get_event_id(events_tbl, event)
                IN  /\ ~HasEvent(events_tbl', event)
                    /\ ~\E r \in DOMAIN occurrences_tbl' : r.event_id = id
                    /\ events_tbl' = {e \in events_tbl : e.name # event}
                    /\ DOMAIN occurrences_tbl' \subseteq DOMAIN occurrences_tbl
                    /\ \A r \in DOMAIN occurrences_tbl :
                          r.event_id # id =>
                              CopiesIn(r, occurrences_tbl') = occurrences_tbl[r]
       /\ \A event \in Names, date \in StoreDates :
            (add_event(event, date) /\ ~HasEvent(events_tbl, event)) =>
                ListedFor(events_tbl', occurrences_tbl', event)
                    = <<[name |-> event, date |-> date]>>]_vars

C21_Witness ==
    /\ pc = "delete_event"
    /\ events_tbl = {[id |-> 2, name |-> "B"]}
    /\ occurrences_tbl = SetToBag({RowOf(2, <<2023, 3, 10>>)})

\* C28: for an event with n >= 2 day counts the average is
\* (last day count - first day count) / (n - 1), truncated: the gaps
\* telescope.
C28_AverageTelescopes ==
    pc \in {"averages", "done"} =>
        \A n \in DOMAIN days_since_now :
            LET v == days_since_now[n]
            IN  Len(v) >= 2 =>
                    /\ n \in DOMAIN averages
                    /\ averages[n] = i32_div(v[Len(v)] - v[1], Len(v) - 1)

C28_Witness ==
    /\ pc = "done"
    /\ events = ScenarioEvents
    /\ days_since_now = [n \in {"A"} |-> <<21, 11, 16, 10>>]
    /\ averages = [n \in {"A"} |-> -3]

\* C29: every row of the occurrences table has the id of a row of the
\* events table.
C29_NoOrphanOccurrence ==
    \A r \in DOMAIN occurrences_tbl : r.event_id \in event_ids(events_tbl)

\* C30: add_event of a new name adds one event row and one occurrence row of
\* that event's id; update_event of a stored name adds one occurrence row;
\* everything stored before is unchanged.
C30_AddsExactlyOneRow ==
    [][\A event \in Names, date \in StoreDates :
          /\ (add_event(event, date) /\ ~HasEvent(events_tbl, event)) =>
                \E e \in events_tbl' :
                    /\ e.name = event
                    /\ e.id \notin event_ids(events_tbl)
                    /\ events_tbl' = events_tbl \cup {e}
                    /\ occurrences_tbl' =
                           occurrences_tbl (+) SetToBag({RowOf(e.id, date)})
          /\ (update_event(event, date) /\ HasEvent(events_tbl, event)) =>
                /\ events_tbl' = events_tbl
                /\ occurrences_tbl' =
                       occurrences_tbl
                           (+) SetToBag({RowOf(get_event_id(events_tbl, event), date)})]_vars

C30_Witness ==
    /\ pc = "update_event"
    /\ events_tbl = {[id |-> 1, name |-> "A"], [id |-> 2, name |-> "B"]}
    /\ occurrences_tbl = (RowOf(1, <<2023, 4, 11>>) :> 1) @@ (RowOf(2, <<2023, 4, 11>>) :> 2)

\* C22: in the events view an event without an average (fewer than two
\* occurrences) has the placeholder "---" in the average column, and an
\* event with an average has that average, as "N day(s)".
C22_PlaceholderWithoutAverage ==
    pc = "events_view" =>
        \A i \in DOMAIN event_rows :
            LET n == event_rows[i].event
                shown == event_rows[i].average_text
            IN  IF n \in DOMAIN averages
                THEN shown.number = averages[n] /\ shown.text # "---"
                ELSE shown.text = "---"

\* The weekday of the first of the month counted from Sunday, by the
\* month-key rule (0 = Sunday).
MonthKey == <<0, 3, 2, 5, 0, 3, 5, 1, 4, 6, 2, 4>>

FirstWeekday(y, m) ==
    LET yy == IF m < 3 THEN y - 1 ELSE y
    IN  (yy + (yy \div 4) - (yy \div 100) + (yy \div 400) + MonthKey[m] + 1) % 7

\* C23: the grid has 42 cells; with f the weekday of the 1st from Sunday and
\* L the last day of the month, cell i carries day i - f + 1 for
\* f <= i < f + L and 0 otherwise: every day 1..L once, in increasing order,
\* and no day above L; building the grid does not panic.
C23_GridCarriesTheMonth ==
    /\ pc # "panicked"
    /\ pc = "calendar_view" =>
          LET f == FirstWeekday(calendar.year, calendar.month)
              L == DaysInMonth(calendar.year, calendar.month)
          IN  /\ Len(cells) = 42
              /\ \A i \in 0..41 :
                    cells[i + 1] = IF f <= i /\ i < f + L THEN i - f + 1 ELSE 0
              /\ \A d \in 1..L : Cardinality({k \in 1..42 : cells[k] = d}) = 1
              /\ \A j, k \in 1..42 :
                    (j < k /\ cells[j] # 0 /\ cells[k] # 0) => cells[j] < cells[k]
              /\ \A k \in 1..42 : cells[k] \in 0..L

\* July 2023 begins on a Saturday and has 31 days: the grid runs into its
\* sixth row.
C23_Witness ==
    /\ pc = "calendar_view"
    /\ calendar = [month |-> 7, year |-> 2023]
    /\ cells[6] = 0
    /\ cells[7] = 1
    /\ cells[37] = 31
    /\ cells[38] = 0

\* C26: NextMonth and PreviousMonth keep the month in 1..12: NextMonth from
\* 12 gives month 1 of the next year, PreviousMonth from 1 gives month 12 of
\* the year before, and otherwise the month moves by one in the same year.
C26_MonthStaysInRange ==
    [][calendar.month \in 1..12 =>
          /\ calendar'.month \in 1..12
          /\ pc' = "NextMonth" =>
                calendar' = IF calendar.month = 12
                            THEN [month |-> 1, year |-> calendar.year + 1]
                            ELSE [month |-> calendar.month + 1, year |-> calendar.year]
          /\ pc' = "PreviousMonth" =>
                calendar' = IF calendar.month = 1
                            THEN [month |-> 12, year |-> calendar.year - 1]
                            ELSE [month |-> calendar.month - 1, year |-> calendar.year]]_vars

C26_Witness ==
    /\ pc = "NextMonth"
    /\ calendar = [month |-> 1, year |-> 2024]

\* C27: NextMonth followed by PreviousMonth, and PreviousMonth followed by
\* NextMonth, give back the month and year they started from.
C27_NextAndPreviousUndoEachOther ==
    [][/\ pc' = "NextMonth" => calendar_update(calendar', "PreviousMonth") = calendar
       /\ pc' = "PreviousMonth" => calendar_update(calendar', "NextMonth") = calendar]_vars

C27_Witness ==
    /\ pc = "PreviousMonth"
    /\ calendar = [month |-> 12, year |-> 2023]

\* C24: whenever the page on display is AddEvent, the stored (year, month,
\* day) is a real date with day >= 1, so neither AddEvent::view nor
\* AddEvent::update builds a date from day 0 or month 0 (and panics).
C24_AddEventPageHasADate ==
    /\ pc # "panicked"
    /\ current_page = "AddEvent" =>
          /\ day >= 1
          /\ month >= 1
          /\ parse_ok(<<year, month, day>>)

C24_Witness ==
    /\ pc = "UpdateEvent"
    /\ current_page = "AddEvent"
    /\ <<year, month, day>> = <<2024, 2, 29>>
    /\ add_event_page = [date |-> <<2024, 2, 29>>, event |-> "A"]

\* C25: DayClicked(0, m, y) leaves the page and the stored day, month and
\* year as they are; DayClicked(d, m, y) with d # 0 stores (d, m, y) and
\* shows the AddEvent page.
C25_BlankCellIsIgnored ==
    [][\A i \in ClickCells(calendar) :
          ClickDay(i) =>
              LET d == button_day(calendar, i)
              IN  IF d = 0
                  THEN UNCHANGED <<current_page, day, month, year>>
                  ELSE /\ <<day', month', year'>> = <<d, calendar.month, calendar.year>>
                       /\ current_page' = "AddEvent"]_vars

C25_Witness ==
    /\ pc = "DayClicked"
    /\ current_page = "Calendar"
    /\ <<year, month, day>> = <<2024, 1, 31>>

====
